---- MODULE Spec2Model ----
(***************************************************************************)
(* Model of templates/python/main.py: a Flask application with a root      *)
(* endpoint and a /health endpoint that probes a PostgreSQL database.      *)
(*                                                                         *)
(* Python strings that the code inspects (environment values, the          *)
(* connection URL) are sequences of one-character strings; Python values   *)
(* are tagged records so that None, "" and 0 stay distinct and truthiness  *)
(* is computed the way Python computes it.                                 *)
(***************************************************************************)
EXTENDS Integers, Sequences, FiniteSets, TLC

\* ------------------------------------------------------------ bounds
\* Number of request slots served concurrently by the host runtime.
MaxRequests == 2

\* ------------------------------------------------------ Python values
NoneV == [t |-> "none"]
StrV(s) == [t |-> "str", v |-> s]
IntV(n) == [t |-> "int", v |-> n]
PyTrue == [t |-> "bool", v |-> TRUE]

IsNone(x) == x.t = "none"

\* bool(x) as `if x:` and `x or y` compute it
Truthy(x) ==
  CASE x.t = "none" -> FALSE
    [] x.t = "str"  -> x.v # <<>>
    [] x.t = "int"  -> x.v # 0
    [] x.t = "bool" -> x.v

\* x or y (y is evaluated by the caller only when x is falsy)
PyOr(x, y) == IF Truthy(x) THEN x ELSE y

\* x is True
\* (faulty variant: `if db_check:` instead of `db_check is True`)
IsTrueTruthy(x) == Truthy(x)
IsTrue(x) == x.t = "bool" /\ x.v

\* str(x); the text of a message is a sequence of pieces
PyStr(x) == IF x.t = "str" THEN x.v ELSE IF x.t = "bool" THEN <<"True">> ELSE <<"None">>

\* Outcome of evaluating an expression: a value or a raised exception
Ok(x) == [ok |-> TRUE, val |-> x]
Raise(type, msg) == [ok |-> FALSE, type |-> type, msg |-> msg]

\* ----------------------------------------------------- string helpers
Digits == <<"0", "1", "2", "3", "4", "5", "6", "7", "8", "9">>
UpperCase == <<"A","B","C","D","E","F","G","H","I","J","K","L","M",
               "N","O","P","Q","R","S","T","U","V","W","X","Y","Z">>
LowerCase == <<"a","b","c","d","e","f","g","h","i","j","k","l","m",
               "n","o","p","q","r","s","t","u","v","w","x","y","z">>

Range(s) == {s[i] : i \in DOMAIN s}

\* s.find(c) + 1: the first position of c in s, 0 when there is none
Find(s, c) ==
  IF \E i \in DOMAIN s : s[i] = c
  THEN CHOOSE i \in DOMAIN s : s[i] = c /\ \A j \in 1..(i-1) : s[j] # c
  ELSE 0

\* s.rfind(c) + 1
RFind(s, c) ==
  IF \E i \in DOMAIN s : s[i] = c
  THEN CHOOSE i \in DOMAIN s : s[i] = c /\ \A j \in (i+1)..Len(s) : s[j] # c
  ELSE 0

\* The first position in s of any character of cs, Len(s)+1 when none
FindAny(s, cs) ==
  IF \E i \in DOMAIN s : s[i] \in cs
  THEN CHOOSE i \in DOMAIN s : s[i] \in cs /\ \A j \in 1..(i-1) : s[j] \notin cs
  ELSE Len(s) + 1

\* s[i:] with i counted from 1
From(s, i) == SubSeq(s, i, Len(s))

\* s.partition(c) and s.rpartition(c)
Partition(s, c) ==
  LET i == Find(s, c) IN
  IF i = 0 THEN [head |-> s, found |-> FALSE, tail |-> <<>>]
  ELSE [head |-> SubSeq(s, 1, i-1), found |-> TRUE, tail |-> From(s, i+1)]

RPartition(s, c) ==
  LET i == RFind(s, c) IN
  IF i = 0 THEN [head |-> <<>>, found |-> FALSE, tail |-> s]
  ELSE [head |-> SubSeq(s, 1, i-1), found |-> TRUE, tail |-> From(s, i+1)]

\* str.lower() on one character
LowerChar(c) ==
  IF c \in Range(UpperCase)
  THEN LowerCase[CHOOSE i \in DOMAIN UpperCase : UpperCase[i] = c]
  ELSE c

Lower(s) == [i \in DOMAIN s |-> LowerChar(s[i])]

IsDigits(s) == s # <<>> /\ \A i \in DOMAIN s : s[i] \in Range(Digits)

\* A decimal literal as int() accepts it: an optional sign, then digits
IsIntLiteral(s) ==
  \/ IsDigits(s)
  \/ s # <<>> /\ s[1] \in {"+", "-"} /\ IsDigits(Tail(s))

DigitVal(c) == (CHOOSE i \in DOMAIN Digits : Digits[i] = c) - 1

RECURSIVE ToNat(_)
ToNat(s) ==
  IF s = <<>> THEN 0
  ELSE 10 * ToNat(SubSeq(s, 1, Len(s) - 1)) + DigitVal(s[Len(s)])

ToInt(s) ==
  IF s[1] = "-" THEN 0 - ToNat(Tail(s))
  ELSE IF s[1] = "+" THEN ToNat(Tail(s)) ELSE ToNat(s)

\* int(x): an int is returned as is, a string is parsed as a decimal literal
PyInt(x) ==
  CASE x.t = "int" -> Ok(x)
    [] x.t = "str" -> IF IsIntLiteral(x.v) THEN Ok(IntV(ToInt(x.v)))
                      ELSE Raise("ValueError", <<"invalid literal for int() with base 10">>)
    [] OTHER       -> Raise("TypeError", <<"int() argument must be a string or a number">>)

\* ----------------------------------------------------------- urlparse
SchemeChars == Range(LowerCase) \cup Range(UpperCase) \cup Range(Digits) \cup {"+", "-", "."}

\* urllib.parse.urlparse(url): scheme, netloc and path of the URL
urlparse(url) ==
  LET colon     == Find(url, ":")
      hasScheme == /\ colon > 1
                   /\ \A i \in 1..(colon-1) : url[i] \in SchemeChars
      scheme    == IF hasScheme THEN Lower(SubSeq(url, 1, colon-1)) ELSE <<>>
      rest      == IF hasScheme THEN From(url, colon+1) ELSE url
      hasNetloc == Len(rest) >= 2 /\ rest[1] = "/" /\ rest[2] = "/"
      afterSl   == IF hasNetloc THEN From(rest, 3) ELSE rest
      delim     == FindAny(afterSl, {"/", "?", "#"})
      netloc    == IF hasNetloc THEN SubSeq(afterSl, 1, delim-1) ELSE <<>>
      rest2     == IF hasNetloc THEN From(afterSl, delim) ELSE rest
      noFrag    == Partition(rest2, "#").head
      path      == Partition(noFrag, "?").head
  IN [scheme |-> scheme, netloc |-> netloc, path |-> path]

\* ParseResult._userinfo and ParseResult._hostinfo
UserInfo(parsed) ==
  LET at == RPartition(parsed.netloc, "@") IN
  IF at.found
  THEN LET up == Partition(at.head, ":") IN
       [username |-> StrV(up.head),
        password |-> IF up.found THEN StrV(up.tail) ELSE NoneV]
  ELSE [username |-> NoneV, password |-> NoneV]

HostInfo(parsed) ==
  LET hostinfo == RPartition(parsed.netloc, "@").tail
      hp       == Partition(hostinfo, ":")
  IN [hostname |-> hp.head,
      port     |-> IF hp.found /\ hp.tail # <<>> THEN StrV(hp.tail) ELSE NoneV]

\* parsed.username, parsed.password, parsed.hostname, parsed.path
Username(parsed) == UserInfo(parsed).username
Password(parsed) == UserInfo(parsed).password
Hostname(parsed) ==
  LET h == HostInfo(parsed).hostname IN
  IF h = <<>> THEN NoneV ELSE StrV(Lower(h))
Path(parsed) == StrV(parsed.path)

\* parsed.port: None, an int in 0..65535, or ValueError
UrlPort(parsed) ==
  LET p == HostInfo(parsed).port IN
  IF IsNone(p) THEN Ok(NoneV)
  ELSE IF ~IsDigits(p.v)
       THEN Raise("ValueError", <<"Port could not be cast to integer value">>)
       ELSE IF ToNat(p.v) > 65535
            THEN Raise("ValueError", <<"Port out of range 0-65535">>)
            ELSE Ok(IntV(ToNat(p.v)))


\* -------------------------------------------------------- environment
EnvNames == {"PORT", "DATABASE_URL",
             "DATABASE_HOST", "DB_HOST", "DATABASE_PORT", "DB_PORT",
             "DATABASE_NAME", "DB_NAME", "DATABASE_USER", "DB_USER",
             "DATABASE_PASSWORD", "DB_PASSWORD"}

\* os.environ.get(k) and os.environ.get(k, d); e maps an unset name to None
EnvGet(e, k) == e[k]
EnvGetDefault(e, k, d) == IF IsNone(e[k]) THEN d ELSE e[k]

\* Hardcoded fallbacks of check_database and of PORT
DefaultHost == <<"p","o","s","t","g","r","e","s">>
DefaultPort == 5432
DefaultName == <<"p","o","s","t","g","r","e","s">>
DefaultUser == <<"p","g","a","d","m","i","n">>
DefaultPassword == <<"a","d","m","i","n","1","2","3">>
DefaultAppPort == 3000

\* PORT = int(os.environ.get('PORT', 3000))
\* (faulty variant: no default for an unset PORT)
ModulePortNoDefault(e) == PyInt(EnvGet(e, "PORT"))
ModulePort(e) == PyInt(EnvGetDefault(e, "PORT", IntV(DefaultAppPort)))

\* ------------------------------------------- configuration resolution
\* The keyword arguments of psycopg2.connect when DATABASE_URL is truthy,
\* evaluated left to right; parsed.port and int() may raise.
UrlHost(e, parsed) ==
  IF Truthy(Hostname(parsed)) THEN Hostname(parsed)
  ELSE EnvGetDefault(e, "DATABASE_HOST", StrV(DefaultHost))

UrlPortArg(e, parsed) ==
  LET p == UrlPort(parsed) IN
  IF ~p.ok THEN p
  ELSE IF Truthy(p.val) THEN p
       ELSE PyInt(EnvGetDefault(e, "DATABASE_PORT", IntV(DefaultPort)))

UrlDatabase(e, parsed) ==
  IF Truthy(Path(parsed)) THEN StrV(Tail(parsed.path))
  ELSE EnvGetDefault(e, "DATABASE_NAME", StrV(DefaultName))

UrlUser(e, parsed) ==
  IF Truthy(Username(parsed)) THEN Username(parsed)
  ELSE EnvGetDefault(e, "DATABASE_USER", StrV(DefaultUser))

UrlPassword(e, parsed) ==
  IF Truthy(Password(parsed)) THEN Password(parsed)
  ELSE EnvGetDefault(e, "DATABASE_PASSWORD", StrV(DefaultPassword))

UrlArgs(e) ==
  LET parsed == urlparse(EnvGet(e, "DATABASE_URL").v)
      port   == UrlPortArg(e, parsed)
  IN IF ~port.ok THEN port
     ELSE Ok([host     |-> UrlHost(e, parsed),
              port     |-> port.val,
              database |-> UrlDatabase(e, parsed),
              user     |-> UrlUser(e, parsed),
              password |-> UrlPassword(e, parsed)])

\* The keyword arguments when DATABASE_URL is unset or empty
\* (faulty variant: the legacy name consulted first)
AliasLegacyFirst(e, primary, legacy, default) ==
  EnvGetDefault(e, legacy, EnvGetDefault(e, primary, default))
Alias(e, primary, legacy, default) ==
  EnvGetDefault(e, primary, EnvGetDefault(e, legacy, default))

EnvArgs(e) ==
  LET port == PyInt(Alias(e, "DATABASE_PORT", "DB_PORT", IntV(DefaultPort)))
  IN IF ~port.ok THEN port
     ELSE Ok([host     |-> Alias(e, "DATABASE_HOST", "DB_HOST", StrV(DefaultHost)),
              port     |-> port.val,
              database |-> Alias(e, "DATABASE_NAME", "DB_NAME", StrV(DefaultName)),
              user     |-> Alias(e, "DATABASE_USER", "DB_USER", StrV(DefaultUser)),
              password |-> Alias(e, "DATABASE_PASSWORD", "DB_PASSWORD",
                                 StrV(DefaultPassword))])

\* The arguments check_database passes to psycopg2.connect, or the exception
\* raised while evaluating them
ConnectArgs(e) ==
  IF Truthy(EnvGet(e, "DATABASE_URL")) THEN UrlArgs(e) ELSE EnvArgs(e)

\* health(): database_url or database_host or database_name
DetectedHost(e) == PyOr(EnvGet(e, "DATABASE_HOST"), EnvGet(e, "DB_HOST"))
DetectedName(e) == PyOr(EnvGet(e, "DATABASE_NAME"), EnvGet(e, "DB_NAME"))
\* (faulty variant: a user variable also counts as configuration)
DetectedAlsoUser(e) ==
  \/ Truthy(EnvGet(e, "DATABASE_URL"))
  \/ Truthy(DetectedHost(e))
  \/ Truthy(DetectedName(e))
  \/ Truthy(PyOr(EnvGet(e, "DATABASE_USER"), EnvGet(e, "DB_USER")))
Detected(e) ==
  \/ Truthy(EnvGet(e, "DATABASE_URL"))
  \/ Truthy(DetectedHost(e))
  \/ Truthy(DetectedName(e))

\* The except clauses of check_database: what the function returns for an
\* exception raised inside its try block, or that the exception escapes
\* (faulty variants: only driver errors caught; no `except ImportError`)
ExceptClauseDriverErrorsOnly(exc) ==
  IF exc.type = "ImportError"
  THEN [caught |-> TRUE, ret |-> StrV(<<"psycopg2 not installed">>)]
  ELSE IF exc.type = "OperationalError"
       THEN [caught |-> TRUE, ret |-> StrV(exc.msg)]
       ELSE [caught |-> FALSE, ret |-> NoneV]
ExceptClauseNoImportError(exc) == [caught |-> TRUE, ret |-> StrV(exc.msg)]
ExceptClause(exc) ==
  IF exc.type = "ImportError"
  THEN [caught |-> TRUE, ret |-> StrV(<<"psycopg2 not installed">>)]
  ELSE [caught |-> TRUE, ret |-> StrV(exc.msg)]


\* --------------------------------------------- environments considered
MkEnv(port, url, h, lh, p, lp, n, ln, u, lu, w, lw) ==
  [k \in EnvNames |->
     CASE k = "PORT"              -> port
       [] k = "DATABASE_URL"      -> url
       [] k = "DATABASE_HOST"     -> h
       [] k = "DB_HOST"           -> lh
       [] k = "DATABASE_PORT"     -> p
       [] k = "DB_PORT"           -> lp
       [] k = "DATABASE_NAME"     -> n
       [] k = "DB_NAME"           -> ln
       [] k = "DATABASE_USER"     -> u
       [] k = "DB_USER"           -> lu
       [] k = "DATABASE_PASSWORD" -> w
       [] k = "DB_PASSWORD"       -> lw]

Empty == StrV(<<>>)
Scheme == <<"p","o","s","t","g","r","e","s","q","l",":","/","/">>
UrlUserInfos == {<<>>, <<"u",":","p","@">>, <<"u","@">>, <<":","p","@">>}
UrlHostPorts == {<<>>, <<"H">>, <<"H",":","5">>, <<"H",":","0">>,
                 <<"H",":","x">>, <<"H",":">>, <<"H",":","9","9","9","9","9">>}
UrlPaths     == {<<>>, <<"/">>, <<"/","d">>}
Urls == {StrV(Scheme \o ui \o hp \o pa) :
           ui \in UrlUserInfos, hp \in UrlHostPorts, pa \in UrlPaths}

AppPorts == {NoneV, StrV(<<"8","0">>), StrV(<<"0">>), StrV(<<"x">>), Empty,
             StrV(<<"7","0","0","0","0">>)}

\* Environments with a connection URL: every URL shape against every setting
\* of the primary variables, with the legacy aliases all unset or all set
UrlEnvs ==
  {MkEnv(NoneV, url, h, l[1], p, l[2], n, l[3], u, l[4], w, l[5]) :
     url \in Urls,
     h \in {NoneV, Empty, StrV(<<"d","b">>)},
     p \in {NoneV, StrV(<<"x">>), StrV(<<"7">>)},
     n \in {NoneV, Empty, StrV(<<"a">>)},
     u \in {NoneV, StrV(<<"m","e">>)},
     w \in {NoneV, StrV(<<"p","w">>)},
     l \in {<<NoneV, NoneV, NoneV, NoneV, NoneV>>,
            <<StrV(<<"l","h">>), StrV(<<"8">>), StrV(<<"l","n">>),
              StrV(<<"l","u">>), StrV(<<"l","w">>)>>}}

\* Environments without a usable connection URL (unset, or set to "")
AliasEnvs ==
  {MkEnv(NoneV, url, h, lh, p, lp, n, ln, u, lu, w, lw) :
     url \in {NoneV, Empty},
     h  \in {NoneV, Empty, StrV(<<"d","b">>)},
     lh \in {NoneV, Empty, StrV(<<"l","h">>)},
     p  \in {NoneV, StrV(<<"x">>), StrV(<<"7">>)},
     lp \in {NoneV, StrV(<<"x">>), StrV(<<"8">>)},
     n  \in {NoneV, Empty, StrV(<<"a">>)},
     ln \in {NoneV, Empty, StrV(<<"l","n">>)},
     u  \in {NoneV, Empty, StrV(<<"m","e">>)},
     lu \in {NoneV, StrV(<<"l","u">>)},
     w  \in {NoneV, StrV(<<"p","w">>)},
     lw \in {NoneV, StrV(<<"l","w">>)}}

\* Every value of PORT against a configured and an unconfigured database
PortEnvs ==
  {MkEnv(port, url, NoneV, NoneV, NoneV, NoneV, NoneV, NoneV, NoneV, NoneV, NoneV, NoneV) :
     port \in AppPorts,
     url \in {NoneV, StrV(Scheme \o <<"u",":","p","@","H",":","5","/","d">>)}}

\* A few environments for the concurrent runs: nothing configured, a full URL,
\* a URL without a port beside a malformed DATABASE_PORT, a legacy host only
FewEnvs ==
  {MkEnv(port, c[1], NoneV, c[2], c[3], NoneV, NoneV, NoneV, NoneV, NoneV, NoneV, NoneV) :
     port \in {NoneV, StrV(<<"8","0">>), StrV(<<"x">>), StrV(<<"7","0","0","0","0">>)},
     c \in {<<NoneV, NoneV, NoneV>>,
            <<StrV(Scheme \o <<"u",":","p","@","H",":","5","/","d">>), NoneV, NoneV>>,
            <<StrV(Scheme \o <<"H">>), NoneV, StrV(<<"x">>)>>,
            <<NoneV, StrV(<<"l","h">>), NoneV>>}}

\* -------------------------------------------------------------- state
VARIABLES
  env,            \* os.environ, fixed for the life of the process
  driver,         \* whether `import psycopg2` succeeds
  slots,          \* the requests the host runtime serves
  server,         \* "start", "loaded", "listening", "load_error", "bind_error"
  PORT,           \* the module global PORT
  listen,         \* host and port given to app.run
  pc,             \* per request: where its handler stands
  path,           \* per request: the path routed
  health_status,  \* per request: the dict health() builds
  db_check,       \* per request: the value check_database returned
  raised,         \* per request: the exception raised inside check_database
  response,       \* per request: (body, status code) returned
  conn,           \* per request: the local `conn` of check_database
  connections,    \* connections currently open on the database side
  closeFailed,    \* connections whose close() raised
  probes,         \* per request: calls of check_database
  attempts,       \* per request: calls of psycopg2.connect
  args            \* per request: keyword arguments of the connect call

vars == <<env, driver, slots, server, PORT, listen, pc, path, health_status,
          db_check, raised, response, conn, connections, closeFailed, probes,
          attempts, args>>

Requests == 1..MaxRequests

NoResponse == [code |-> 0, body |-> <<>>]
NoException == [ok |-> TRUE, type |-> "", msg |-> <<>>]
NoArgs == [host |-> NoneV, port |-> NoneV, database |-> NoneV,
           user |-> NoneV, password |-> NoneV]
NoConn == [owner |-> 0, n |-> 0]

InitRest ==
  /\ driver \in BOOLEAN
  /\ server = "start"
  /\ PORT = NoneV
  /\ listen = [host |-> "", port |-> 0]
  /\ pc = [r \in Requests |-> "idle"]
  /\ path = [r \in Requests |-> ""]
  /\ health_status = [r \in Requests |-> <<>>]
  /\ db_check = [r \in Requests |-> NoneV]
  /\ raised = [r \in Requests |-> NoException]
  /\ response = [r \in Requests |-> NoResponse]
  /\ conn = [r \in Requests |-> NoConn]
  /\ connections = {}
  /\ closeFailed = {}
  /\ probes = [r \in Requests |-> 0]
  /\ attempts = [r \in Requests |-> 0]
  /\ args = [r \in Requests |-> NoArgs]

\* Concurrent requests over a few environments
Init ==
  /\ env \in FewEnvs
  /\ slots = Requests
  /\ InitRest

\* One request over every environment considered
InitEnv ==
  /\ env \in UrlEnvs \cup AliasEnvs \cup PortEnvs
  /\ slots = {1}
  /\ InitRest


\* ------------------------------------------------------------ startup
\* Module import: PORT = int(os.environ.get('PORT', 3000)); a raise ends the process
LoadModule ==
  /\ server = "start"
  /\ LET p == ModulePort(env) IN
       IF p.ok THEN server' = "loaded" /\ PORT' = p.val
       ELSE server' = "load_error" /\ PORT' = PORT
  /\ UNCHANGED <<env, driver, slots, listen, pc, path, health_status, db_check,
                 raised, response, conn, connections, closeFailed, probes, attempts, args>>

\* app.run(host='0.0.0.0', port=PORT, debug=False): the bind fails for a port
\* outside 0..65535 and whenever the operating system refuses it
Run ==
  /\ server = "loaded"
  /\ listen' = [host |-> "0.0.0.0", port |-> PORT.v]
  /\ \E osOk \in BOOLEAN :
       server' = IF osOk /\ PORT.v \in 0..65535 THEN "listening" ELSE "bind_error"
  /\ UNCHANGED <<env, driver, slots, PORT, pc, path, health_status, db_check,
                 raised, response, conn, connections, closeFailed, probes, attempts, args>>

\* ----------------------------------------------------------- handlers
Accepting(r) == server = "listening" /\ r \in slots /\ pc[r] = "idle"

\* GET /
Root(r) ==
  /\ Accepting(r)
  /\ path' = [path EXCEPT ![r] = "/"]
  /\ response' = [response EXCEPT ![r] =
                    [code |-> 200,
                     body |-> [message |-> "AI Fabrix Application",
                               version |-> "1.0.0"]]]
  /\ pc' = [pc EXCEPT ![r] = "done"]
  /\ UNCHANGED <<env, driver, slots, server, PORT, listen, health_status, db_check,
                 raised, conn, connections, closeFailed, probes, attempts, args>>

\* GET /health up to the call of check_database
HealthBegin(r) ==
  /\ Accepting(r)
  /\ path' = [path EXCEPT ![r] = "/health"]
  /\ LET hs == [status |-> "ok", timestamp |-> "utcnow().isoformat()+Z"] IN
       /\ health_status' = [health_status EXCEPT ![r] = hs]
       /\ IF Detected(env)
          THEN /\ pc' = [pc EXCEPT ![r] = "check_database"]
               /\ UNCHANGED response
          ELSE /\ pc' = [pc EXCEPT ![r] = "done"]
               /\ response' = [response EXCEPT ![r] = [code |-> 200, body |-> hs]]
  /\ UNCHANGED <<env, driver, slots, server, PORT, listen, db_check, raised,
                 conn, connections, closeFailed, probes, attempts, args>>

\* An exception raised inside the try block of check_database: the except
\* clauses turn it into the return value; one they do not catch leaves
\* health() too and the framework answers 500
Raised(r, exc) ==
  LET h == ExceptClause(exc) IN
  /\ raised' = [raised EXCEPT ![r] = exc]
  /\ IF h.caught
     THEN /\ db_check' = [db_check EXCEPT ![r] = h.ret]
          /\ pc' = [pc EXCEPT ![r] = "returned"]
          /\ UNCHANGED response
     ELSE /\ pc' = [pc EXCEPT ![r] = "done"]
          /\ response' = [response EXCEPT ![r] =
                            [code |-> 500, body |-> [error |-> "Internal Server Error"]]]
          /\ UNCHANGED db_check

ConnectErrors == {<<"connection refused">>, <<"password authentication failed">>}

\* The connection a request's k-th connect call opens
NewConn(r, k) == [owner |-> r, n |-> k]

\* check_database from its entry to the return of psycopg2.connect
CheckDatabaseConnect(r) ==
  /\ pc[r] = "check_database"
  /\ probes' = [probes EXCEPT ![r] = @ + 1]
  /\ IF ~driver
     THEN /\ Raised(r, Raise("ImportError", <<"No module named 'psycopg2'">>))
          /\ UNCHANGED <<conn, connections, attempts, args>>
     ELSE LET a == ConnectArgs(env) IN
          IF ~a.ok
          THEN /\ Raised(r, a)
               /\ UNCHANGED <<conn, connections, attempts, args>>
          ELSE /\ attempts' = [attempts EXCEPT ![r] = @ + 1]
               /\ args' = [args EXCEPT ![r] = a.val]
               /\ \/ /\ conn' = [conn EXCEPT ![r] = NewConn(r, attempts[r] + 1)]
                     /\ connections' = connections \cup {NewConn(r, attempts[r] + 1)}
                     /\ pc' = [pc EXCEPT ![r] = "connected"]
                     /\ UNCHANGED <<db_check, raised, response>>
                  \/ /\ \E msg \in ConnectErrors :
                          Raised(r, Raise("OperationalError", msg))
                     /\ UNCHANGED <<conn, connections>>
  /\ UNCHANGED <<env, driver, slots, server, PORT, listen, path, health_status,
                 closeFailed>>

\* What a successful conn.close() leaves open
\* (faulty variant: the connection is never closed)
CloseLeak(open, c) == open
Close(open, c) == open \ {c}

\* check_database: conn.close() and return True
CheckDatabaseClose(r) ==
  /\ pc[r] = "connected"
  /\ \/ /\ connections' = Close(connections, conn[r])
        /\ db_check' = [db_check EXCEPT ![r] = PyTrue]
        /\ pc' = [pc EXCEPT ![r] = "returned"]
        /\ UNCHANGED <<raised, response, closeFailed>>
     \/ /\ closeFailed' = closeFailed \cup {conn[r]}
        /\ \E stillOpen \in BOOLEAN :
             connections' = IF stillOpen THEN connections ELSE connections \ {conn[r]}
        /\ Raised(r, Raise("OperationalError", <<"connection already closed">>))
  /\ UNCHANGED <<env, driver, slots, server, PORT, listen, path, health_status,
                 conn, probes, attempts, args>>

\* health() after check_database returned
HealthRespond(r) ==
  /\ pc[r] = "returned"
  /\ LET hs == IF IsTrue(db_check[r])
               THEN health_status[r] @@ ("database" :> "connected")
               ELSE health_status[r] @@ ("database" :> "error")
                      @@ ("database_error" :> PyStr(db_check[r]))
         code == IF IsTrue(db_check[r]) THEN 200 ELSE 503
     IN /\ health_status' = [health_status EXCEPT ![r] = hs]
        /\ response' = [response EXCEPT ![r] = [code |-> code, body |-> hs]]
  /\ pc' = [pc EXCEPT ![r] = "done"]
  /\ UNCHANGED <<env, driver, slots, server, PORT, listen, path, db_check, raised,
                 conn, connections, closeFailed, probes, attempts, args>>

Next ==
  \/ LoadModule
  \/ Run
  \/ \E r \in Requests : Root(r)
  \/ \E r \in Requests : HealthBegin(r)
  \/ \E r \in Requests : CheckDatabaseConnect(r)
  \/ \E r \in Requests : CheckDatabaseClose(r)
  \/ \E r \in Requests : HealthRespond(r)

Spec == Init /\ [][Next]_vars
SpecEnv == InitEnv /\ [][Next]_vars

TypeOK ==
  /\ server \in {"start", "loaded", "listening", "load_error", "bind_error"}
  /\ \A r \in Requests :
       pc[r] \in {"idle", "check_database", "connected", "returned", "done"}


\* ============================================================= claims
HasKey(b, k) == k \in DOMAIN b
HealthDone(r) == pc[r] = "done" /\ path[r] = "/health"
InFlight(r) == pc[r] \in {"check_database", "connected", "returned"}

\* The variables whose presence configures a database, in the claims' words
DetectionNames == {"DATABASE_URL", "DATABASE_HOST", "DB_HOST", "DATABASE_NAME", "DB_NAME"}
DbConfigured(e) == \E k \in DetectionNames : ~IsNone(e[k]) /\ e[k].v # <<>>

\* C1: a /health request whose environment configures a database calls the
\* probe exactly once and answers by its result: True gives 200 with
\* database = "connected" and no database_error; a diagnostic string gives 503
\* with database = "error" and database_error = that string. Over all
\* responses, 503 <=> database = "error" <=> database_error is present.
C1_HealthFollowsProbe ==
  \A r \in Requests :
    /\ (HealthDone(r) /\ DbConfigured(env)) =>
         /\ probes[r] = 1
         /\ db_check[r] = PyTrue \/ db_check[r].t = "str"
         /\ db_check[r] = PyTrue =>
              /\ response[r].code = 200
              /\ HasKey(response[r].body, "database")
              /\ response[r].body["database"] = "connected"
              /\ ~HasKey(response[r].body, "database_error")
         /\ db_check[r].t = "str" =>
              /\ response[r].code = 503
              /\ HasKey(response[r].body, "database")
              /\ response[r].body["database"] = "error"
              /\ HasKey(response[r].body, "database_error")
              /\ response[r].body["database_error"] = db_check[r].v
    /\ pc[r] = "done" =>
         /\ (response[r].code = 503) <=>
              (HasKey(response[r].body, "database")
                 /\ response[r].body["database"] = "error")
         /\ (response[r].code = 503) <=> HasKey(response[r].body, "database_error")

\* C1 witness: one request answered 200/connected beside one answered 503/error
C1_Witness ==
  \E r1, r2 \in Requests :
    /\ HealthDone(r1) /\ response[r1].code = 200 /\ db_check[r1] = PyTrue
    /\ HealthDone(r2) /\ response[r2].code = 503 /\ db_check[r2].t = "str"

\* C2: a /health request whose environment has no connection URL, no host and
\* no database name (under either alias) answers 200 with status "ok" and a
\* timestamp, with neither database nor database_error, and never calls the
\* probe or opens a connection, whatever the port, user and password variables.
C2_NoConfigNoProbe ==
  \A r \in Requests :
    (path[r] = "/health" /\ ~DbConfigured(env)) =>
      /\ pc[r] = "done"
      /\ response[r].code = 200
      /\ DOMAIN response[r].body = {"status", "timestamp"}
      /\ response[r].body["status"] = "ok"
      /\ probes[r] = 0
      /\ attempts[r] = 0
      /\ connections = {}

\* C2 witness: such a request answered while port, user and password are set
C2_Witness ==
  \E r \in Requests :
    /\ HealthDone(r) /\ ~DbConfigured(env)
    /\ ~IsNone(env["DATABASE_PORT"]) /\ ~IsNone(env["DATABASE_USER"])
    /\ ~IsNone(env["DB_PASSWORD"])
    /\ ~IsNone(env["DATABASE_HOST"])


\* C3 as claimed: each probe makes at most one connection attempt, every open
\* connection belongs to a request still in flight, open connections never
\* outnumber the requests in flight and none is open when no request is in
\* flight, a failing conn.close() included.
C3_Original ==
  /\ \A r \in Requests : attempts[r] <= 1
  /\ \A c \in connections : InFlight(c.owner)
  /\ Cardinality(connections) <= Cardinality({r \in Requests : InFlight(r)})
  /\ (\A r \in Requests : ~InFlight(r)) => connections = {}

\* C3 as amended: the same, for the connections whose close() did not raise:
\* each probe makes at most one connection attempt; a connection that is open
\* and whose close() has not raised is the local conn of exactly one request,
\* which stands between connect and close; such connections never outnumber
\* the requests in flight and none is left when no request is in flight.
C3_ProbeClosesItsConnection ==
  /\ \A r \in Requests : attempts[r] <= 1
  /\ \A c \in connections \ closeFailed :
       pc[c.owner] = "connected" /\ conn[c.owner] = c
  /\ \A r1, r2 \in Requests : (r1 # r2 /\ conn[r1] # NoConn) => conn[r1] # conn[r2]
  /\ Cardinality(connections \ closeFailed)
       <= Cardinality({r \in Requests : InFlight(r)})
  /\ (\A r \in Requests : ~InFlight(r)) => connections \subseteq closeFailed

\* C3 witness: one probe has closed its connection and returned True while
\* another request's connection is still open
C3_Witness ==
  \E r1, r2 \in Requests :
    /\ r1 # r2
    /\ pc[r1] = "connected" /\ connections = {conn[r1]}
    /\ pc[r2] = "done" /\ db_check[r2] = PyTrue /\ conn[r2] \notin connections

\* C4: no environment makes /health end in an unhandled error: once
\* check_database has returned, its value is True or a string, every /health
\* response is 200 or 503, and a value that makes the argument evaluation
\* raise (a non-integer port variable, a bad port in the URL) gives the 503
\* database = "error" response of a failed connection.
C4_NoUnhandledError ==
  \A r \in Requests :
    /\ (pc[r] \in {"returned", "done"} /\ probes[r] >= 1) =>
         (db_check[r] = PyTrue \/ db_check[r].t = "str")
    /\ HealthDone(r) => response[r].code \in {200, 503}
    /\ (HealthDone(r) /\ raised[r].type = "ValueError") =>
         /\ attempts[r] = 0
         /\ response[r].code = 503
         /\ HasKey(response[r].body, "database")
         /\ response[r].body["database"] = "error"
         /\ HasKey(response[r].body, "database_error")
         /\ response[r].body["database_error"] = raised[r].msg

\* C4 witness: a request answered 503 because DB_PORT is not an integer
C4_Witness ==
  \E r \in Requests :
    /\ HealthDone(r) /\ response[r].code = 503
    /\ raised[r].type = "ValueError"
    /\ IsNone(env["DATABASE_URL"]) /\ IsNone(env["DATABASE_PORT"])
    /\ env["DB_PORT"] = StrV(<<"x">>)

\* C5: without the driver check_database returns exactly "psycopg2 not
\* installed" and attempts no connection; with the driver, a failed connection
\* attempt returns the text of the error raised; either way /health answers
\* 503 with that text as database_error.
C5_TwoFailureOutcomes ==
  \A r \in Requests :
    (pc[r] \in {"returned", "done"} /\ probes[r] >= 1) =>
      /\ ~driver =>
           /\ db_check[r] = StrV(<<"psycopg2 not installed">>)
           /\ attempts[r] = 0
           /\ \A c \in connections : c.owner # r
      /\ (driver /\ attempts[r] = 1 /\ conn[r] = NoConn) =>
           /\ raised[r].msg \in ConnectErrors
           /\ db_check[r] = StrV(raised[r].msg)
      /\ (pc[r] = "done" /\ db_check[r].t = "str") =>
           /\ response[r].code = 503
           /\ HasKey(response[r].body, "database_error")
           /\ response[r].body["database_error"] = db_check[r].v

\* C5 witness: a 503 carrying the fixed message beside a database URL
C5_Witness ==
  \E r \in Requests :
    /\ HealthDone(r) /\ ~driver /\ ~IsNone(env["DATABASE_URL"])
    /\ response[r].code = 503
    /\ response[r].body["database_error"] = <<"psycopg2 not installed">>

\* C9 as claimed: startup has no failure path, whatever the environment
C9_Original == server \notin {"load_error", "bind_error"}

\* C9 as amended: loading the module fails exactly when PORT is set to a
\* string that is not an integer literal; otherwise PORT is int(PORT), or 3000
\* when unset, app.run is given host 0.0.0.0 and that port, the server then
\* listens only on a port in 0..65535, and requests are served only while
\* it listens.
C9_StartupFailsOnlyOnBadPort ==
  LET p        == env["PORT"]
      expected == IF IsNone(p) THEN 3000 ELSE ToInt(p.v)
  IN /\ server = "load_error" => (~IsNone(p) /\ ~IsIntLiteral(p.v))
     /\ server \in {"loaded", "listening", "bind_error"} =>
          /\ IsNone(p) \/ IsIntLiteral(p.v)
          /\ PORT = IntV(expected)
     /\ server \in {"listening", "bind_error"} =>
          listen = [host |-> "0.0.0.0", port |-> expected]
     /\ server = "listening" => expected \in 0..65535
     /\ \A r \in Requests : pc[r] # "idle" => server = "listening"

\* C9 witness: PORT=80 and the server listening on port 80, serving a request
C9_Witness ==
  /\ env["PORT"] = StrV(<<"8","0">>)
  /\ server = "listening" /\ listen.port = 80
  /\ \E r \in Requests : pc[r] = "done"


\* The discrete variable if set, otherwise the hardcoded default
SetOr(e, k, default) == IF IsNone(e[k]) THEN default ELSE e[k]
\* A URL component that is there: not None and not the empty string
Present(x) == ~IsNone(x) /\ x.v # <<>>
\* The database name a URL carries: its path without the leading "/"
UrlName(q) == IF q.path = <<>> THEN <<>> ELSE Tail(q.path)

\* C6: with DATABASE_URL set, each of host, port, database name, user and
\* password passed to the connection call is the URL's component when the URL
\* has one, otherwise the discrete variable if set, otherwise the default
\* (postgres, 5432, postgres, pgadmin, admin123); in particular the database
\* name falls back when the URL has no path or only the path "/".
C6_UrlComponentsThenEnvThenDefault ==
  \A r \in Requests :
    (attempts[r] >= 1 /\ Truthy(env["DATABASE_URL"])) =>
      LET q    == urlparse(env["DATABASE_URL"].v)
          port == UrlPort(q).val
      IN /\ args[r].host =
              IF Present(Hostname(q)) THEN Hostname(q)
              ELSE SetOr(env, "DATABASE_HOST", StrV(<<"p","o","s","t","g","r","e","s">>))
         /\ args[r].port =
              IF ~IsNone(port) THEN port
              ELSE IF IsNone(env["DATABASE_PORT"]) THEN IntV(5432)
                   ELSE IntV(ToInt(env["DATABASE_PORT"].v))
         /\ args[r].database =
              IF UrlName(q) # <<>> THEN StrV(UrlName(q))
              ELSE SetOr(env, "DATABASE_NAME", StrV(<<"p","o","s","t","g","r","e","s">>))
         /\ args[r].user =
              IF Present(Username(q)) THEN Username(q)
              ELSE SetOr(env, "DATABASE_USER", StrV(<<"p","g","a","d","m","i","n">>))
         /\ args[r].password =
              IF Present(Password(q)) THEN Password(q)
              ELSE SetOr(env, "DATABASE_PASSWORD", StrV(<<"a","d","m","i","n","1","2","3">>))

\* C7: with DATABASE_URL set but without a port, the probe connects with
\* DATABASE_PORT if set, otherwise 5432; with a port in DATABASE_URL, the probe
\* connects with that port and DATABASE_PORT is not consulted (so its value
\* cannot make the probe fail).
C7_UrlPortWins ==
  \A r \in Requests :
    (probes[r] >= 1 /\ driver /\ Truthy(env["DATABASE_URL"])
       /\ UrlPort(urlparse(env["DATABASE_URL"].v)).ok) =>
      LET port == UrlPort(urlparse(env["DATABASE_URL"].v)).val IN
      /\ attempts[r] >= 1 =>
           args[r].port =
             IF ~IsNone(port) THEN port
             ELSE IF IsNone(env["DATABASE_PORT"]) THEN IntV(5432)
                  ELSE IntV(ToInt(env["DATABASE_PORT"].v))
      /\ ~IsNone(port) => attempts[r] >= 1

\* C8: with DATABASE_URL unset, each of the five parameters passed to the
\* connection call is the primary variable if set, otherwise the legacy
\* variable if set, otherwise the default, each resolved on its own.
FirstSet(e, primary, legacy, default) ==
  IF ~IsNone(e[primary]) THEN e[primary]
  ELSE IF ~IsNone(e[legacy]) THEN e[legacy] ELSE default

C8_AliasPrecedence ==
  \A r \in Requests :
    (attempts[r] >= 1 /\ IsNone(env["DATABASE_URL"])) =>
      LET port == FirstSet(env, "DATABASE_PORT", "DB_PORT", IntV(5432)) IN
      /\ args[r].host = FirstSet(env, "DATABASE_HOST", "DB_HOST",
                                 StrV(<<"p","o","s","t","g","r","e","s">>))
      /\ args[r].port = IF port.t = "int" THEN port ELSE IntV(ToInt(port.v))
      /\ args[r].database = FirstSet(env, "DATABASE_NAME", "DB_NAME",
                                     StrV(<<"p","o","s","t","g","r","e","s">>))
      /\ args[r].user = FirstSet(env, "DATABASE_USER", "DB_USER",
                                 StrV(<<"p","g","a","d","m","i","n">>))
      /\ args[r].password = FirstSet(env, "DATABASE_PASSWORD", "DB_PASSWORD",
                                     StrV(<<"a","d","m","i","n","1","2","3">>))

\* C8 witness: a connection made with the legacy host and port (primaries
\* unset), the primary name and user (legacy also set) and the default password
C8_Witness ==
  \E r \in Requests :
    /\ attempts[r] >= 1 /\ IsNone(env["DATABASE_URL"])
    /\ IsNone(env["DATABASE_HOST"]) /\ args[r].host = StrV(<<"l","h">>)
    /\ IsNone(env["DATABASE_PORT"]) /\ args[r].port = IntV(8)
    /\ ~IsNone(env["DB_NAME"]) /\ args[r].database = StrV(<<"a">>)
    /\ ~IsNone(env["DB_USER"]) /\ args[r].user = StrV(<<"m","e">>)
    /\ args[r].password = StrV(<<"a","d","m","i","n","1","2","3">>)

\* C10: when the probe runs with DATABASE_URL unset, the host and the database
\* name it passes to the connection call are the values detection saw, the
\* first non-empty of DATABASE_HOST/DB_HOST and of DATABASE_NAME/DB_NAME: an
\* empty primary does not mask a non-empty legacy alias, and the probe never
\* connects with an empty host or database name.
FirstNonEmpty(e, primary, legacy) ==
  IF Present(e[primary]) THEN e[primary] ELSE e[legacy]

C10_DetectionAgreesWithResolution ==
  \A r \in Requests :
    (attempts[r] >= 1 /\ IsNone(env["DATABASE_URL"])) =>
      /\ Present(FirstNonEmpty(env, "DATABASE_HOST", "DB_HOST")) =>
           args[r].host = FirstNonEmpty(env, "DATABASE_HOST", "DB_HOST")
      /\ Present(FirstNonEmpty(env, "DATABASE_NAME", "DB_NAME")) =>
           args[r].database = FirstNonEmpty(env, "DATABASE_NAME", "DB_NAME")
      /\ args[r].host # Empty
      /\ args[r].database # Empty

====
